---- MODULE Spec2Model ----
(***************************************************************************)
(* Model of src/update-prices.ts: one run of the price update script.      *)
(*                                                                         *)
(* Representation of values:                                               *)
(*   - a two-decimal price string ("12.50") is the number of cents (1250); *)
(*   - a JavaScript number holding an AUD amount is a number of mills      *)
(*     (thousandths), so that parseFloat and toFixed(2) are conversions;   *)
(*   - a scraped USD amount is a record: null, NaN or a number of cents;   *)
(*   - a name or title is a sequence of one-character strings.             *)
(***************************************************************************)
EXTENDS Integers, Sequences, FiniteSets, TLC

\* Bounds of the model: pages served by the platform, products per page.
MaxPages == 2
MaxBatch == 2

----------------------------------------------------------------------------
\* Strings

Lower(c) == IF c = "I" THEN "i" ELSE IF c = "F" THEN "f" ELSE c

toLowerCase(s) == [k \in 1..Len(s) |-> Lower(s[k])]

\* String.prototype.includes: t occurs in s as a contiguous substring.
includes(s, t) ==
  \E k \in 0..(Len(s) - Len(t)) : SubSeq(s, k + 1, k + Len(t)) = t

----------------------------------------------------------------------------
\* Numbers and decimal strings

\* parseFloat of a two-decimal string (cents) is the number (mills).
parseFloat(cents) == cents * 10

\* Number.prototype.toFixed(2): the number (mills) rounded to cents.
toFixed2(mills) == (mills + 5) \div 10

NullNum == [kind |-> "null", cents |-> 0]
NaNNum == [kind |-> "nan", cents |-> 0]
Num(c) == [kind |-> "num", cents |-> c]

\* Variant of TruthyNum that only tests for null.
TruthyNumNotNull(n) == n.kind # "null"

\* Truthiness of a number or null: null, NaN and 0 are falsy.
TruthyNum(n) == n.kind = "num" /\ n.cents # 0

NullStr == [kind |-> "null", cents |-> 0]
Str(c) == [kind |-> "str", cents |-> c]

\* Truthiness of a toFixed(2) string or null: such a string is never empty.
TruthyStr(s) == s.kind = "str"

----------------------------------------------------------------------------
\* The catalog held by the commerce platform

Variant(id, cond, value) == [id |-> id, Condition |-> cond, value |-> value]

IslandFoil ==
  [id |-> "p1", name |-> <<"I", "s", "F">>,
   variants |-> << Variant("v1", "Near Mint", 124),
                   Variant("v2", "Near Mint Foil", 165) >>]

IslandCard ==
  [id |-> "p2", name |-> <<"I", "s">>,
   variants |-> << Variant("v3", "Played", 100),
                   Variant("v4", "Near Mint", 165),
                   Variant("v5", "Near Mint", 124) >>]

Token ==
  [id |-> "p3", name |-> <<"x">>, variants |-> << >>]

Pool == {IslandFoil, IslandCard, Token}

\* The element Array.prototype.concat appends for an undefined argument.
Undefined == [id |-> "undefined", name |-> << >>, variants |-> << >>]

SeqsUpTo(S, n) == UNION {[1..k -> S] : k \in 0..n}

Injective(s) == \A a, b \in 1..Len(s) : s[a] = s[b] => a = b

RECURSIVE Flatten(_)
Flatten(pp) == IF pp = << >> THEN << >> ELSE Head(pp) \o Flatten(Tail(pp))

Batches == {b \in SeqsUpTo(Pool, MaxBatch) : Injective(b)}

\* A catalog is served as 1..MaxPages pages; a product is listed once.
Catalogs ==
  {pp \in SeqsUpTo(Batches, MaxPages) : Len(pp) >= 1 /\ Injective(Flatten(pp))}

VariantIds == {"v1", "v2", "v3", "v4", "v5"}

\* The base price the platform holds for each variant when the run starts.
InitialRemote ==
  [v \in VariantIds |->
     LET owner == CHOOSE p \in Pool : \E k \in 1..Len(p.variants) : p.variants[k].id = v
         k == CHOOSE k \in 1..Len(owner.variants) : owner.variants[k].id = v
     IN owner.variants[k].value]

----------------------------------------------------------------------------
VARIABLES
  apiKey,      \* SQUARESPACE_API_KEY is set
  pages,       \* the catalog as the platform pages it
  remote,      \* variant id -> base price (cents) held by the platform
  pc,          \* position of the script
  cursor,      \* getProducts: cursor (0: none)
  products,    \* getProducts: products accumulated, then main's products
  requests,    \* page requests sent: cursor and kind of response
  backup,      \* the backup file: status and content
  i,           \* index of the product of the current iteration
  lookups,     \* names passed to scrapeCardPrices, in call order
  browsers,    \* browser sessions currently open
  card,        \* scrapeCardPrices: href of the matched card (0: none)
  usd,         \* scrapeCardPrices: normalPriceUSD, foilPriceUSD
  prices,      \* main: value returned by scrapeCardPrices
  writes,      \* calls of updateProductVariant, in call order
  warned,      \* indices of the products reported "No prices found"
  error,       \* the error in flight or caught ("none": no error)
  exitStatus,  \* "running", "zero" or "nonzero"
  rendered,    \* scrapeCardPrices: the cards rendered on the search page
  session      \* the scheduled runs: number of the run, runs planned, and
               \* what the reference site answered for each product

vars == <<apiKey, pages, remote, pc, cursor, products, requests, backup, i,
          lookups, browsers, card, usd, prices, writes, warned, error,
          exitStatus, rendered, session>>

NoUsd == [normal |-> NullNum, foil |-> NullNum]
NoPrices == [isNull |-> TRUE, normalPrice |-> NullStr, foilPrice |-> NullStr]
NoBackup == [status |-> "none", content |-> << >>]

ProductIds == {"p1", "p2", "p3"}

\* The first of n scheduled runs, before the reference site answered anything.
Session(n) ==
  [run |-> 1, planned |-> n, known |-> {},
   reference |-> [id \in ProductIds |-> NoPrices]]

\* The state of a process that starts, whatever the schedule.
InitRun ==
  /\ apiKey \in BOOLEAN
  /\ pages \in Catalogs
  /\ remote = InitialRemote
  /\ pc = "start"
  /\ cursor = 0
  /\ products = << >>
  /\ requests = << >>
  /\ backup = NoBackup
  /\ i = 0
  /\ lookups = << >>
  /\ browsers = 0
  /\ card = 0
  /\ usd = NoUsd
  /\ prices = NoPrices
  /\ writes = << >>
  /\ warned = << >>
  /\ error = "none"
  /\ exitStatus = "running"
  /\ rendered = << >>

\* A single run of the script.
Init == InitRun /\ session = Session(1)

\* The script run twice in a row by the schedule, on a catalog of one page.
InitTwoRuns == InitRun /\ session = Session(2) /\ Len(pages) = 1

\* Variant of Catch that logs the error without process.exit(1).
CatchLogsOnly(e) ==
  /\ pc' = "exit"
  /\ error' = e
  /\ exitStatus' = "zero"

\* The top-level catch: log the error and process.exit(1).
Catch(e) ==
  /\ pc' = "exit"
  /\ error' = e
  /\ exitStatus' = "nonzero"

----------------------------------------------------------------------------
\* Module start: the credential check

CheckApiKey ==
  /\ pc = "start"
  /\ IF apiKey
       THEN /\ pc' = "getProducts"
            /\ UNCHANGED <<error, exitStatus>>
       ELSE Catch("MissingEnv")
  /\ UNCHANGED <<rendered, session>>
  /\ UNCHANGED <<apiKey, pages, remote, cursor, products, requests, backup, i,
                 lookups, browsers, card, usd, prices, writes, warned>>

----------------------------------------------------------------------------
\* Squarespace.getProducts

\* The page a cursor designates: no cursor is the first page.
PageOf(c) == IF c = 0 THEN 1 ELSE c

\* The products of a page, with the base prices the platform holds now.
ServedBatch(k) ==
  [n \in 1..Len(pages[k]) |->
     [pages[k][n] EXCEPT !.variants =
        [m \in 1..Len(pages[k][n].variants) |->
           [pages[k][n].variants[m] EXCEPT !.value = remote[pages[k][n].variants[m].id]]]]]

\* pagination.nextPageCursor of page k: absent on the last page.
NextPageCursor(k) == IF k < Len(pages) THEN k + 1 ELSE 0

\* Variant of concat that keeps only the latest batch.
concatReplaces(ps, batch) == batch

\* products.concat(data.products)
concat(ps, batch) == ps \o batch

\* The position after a response: the do-while continues while (cursor).
AfterPage(c) == IF c # 0 THEN "getProducts" ELSE "backup"

FetchPage ==
  /\ pc = "getProducts"
  /\ \E resp \in {"ok", "errorBody", "raise"} :
       /\ requests' = Append(requests, [cursor |-> cursor, resp |-> resp])
       /\ CASE resp = "ok" ->
                 /\ products' = concat(products, ServedBatch(PageOf(cursor)))
                 /\ cursor' = NextPageCursor(PageOf(cursor))
                 /\ pc' = AfterPage(cursor')
                 /\ UNCHANGED <<error, exitStatus>>
            [] resp = "errorBody" ->
                 \* a JSON body without products or pagination
                 /\ products' = concat(products, <<Undefined>>)
                 /\ cursor' = 0
                 /\ pc' = AfterPage(cursor')
                 /\ UNCHANGED <<error, exitStatus>>
            [] resp = "raise" ->
                 \* fetch or response.json() rejects
                 /\ Catch("FetchError")
                 /\ UNCHANGED <<products, cursor>>
  /\ UNCHANGED <<rendered, session>>
  /\ UNCHANGED <<apiKey, pages, remote, backup, i, lookups, browsers, card,
                 usd, prices, writes, warned>>

----------------------------------------------------------------------------
\* Squarespace.backupProducts

JsonNull == [id |-> "null", name |-> << >>, variants |-> << >>]

\* JSON.stringify of the product array: an undefined element becomes null.
stringify(ps) ==
  [k \in 1..Len(ps) |-> IF ps[k] = Undefined THEN JsonNull ELSE ps[k]]

\* Variant of backupProducts that swallows the write error.
backupProductsSwallows(fsOk) == "return"

\* How backupProducts completes when fs.writeFileSync succeeds or throws.
backupProducts(fsOk) == IF fsOk THEN "return" ELSE "raise"

\* Variant of BackupProducts that goes on without writing the file.
BackupProductsSkipped ==
  /\ pc = "backup"
  /\ pc' = "loop"
  /\ i' = 1
  /\ UNCHANGED <<rendered, session>>
  /\ UNCHANGED <<apiKey, pages, remote, cursor, products, requests, backup,
                 lookups, browsers, card, usd, prices, writes, warned, error,
                 exitStatus>>

BackupProducts ==
  /\ pc = "backup"
  /\ \E fsOk \in BOOLEAN :
       /\ backup' = [status |-> IF fsOk THEN "written" ELSE "failed",
                     content |-> IF fsOk THEN stringify(products) ELSE << >>]
       /\ IF backupProducts(fsOk) = "return"
            THEN /\ pc' = "loop"
                 /\ i' = 1
                 /\ UNCHANGED <<error, exitStatus>>
            ELSE /\ Catch("WriteFileError")
                 /\ UNCHANGED i
  /\ UNCHANGED <<rendered, session>>
  /\ UNCHANGED <<apiKey, pages, remote, cursor, products, requests, lookups,
                 browsers, card, usd, prices, writes, warned>>

----------------------------------------------------------------------------
\* TCGPlayer.scrapeCardPrices

\* Search results the reference site may render: title and link of each card
\* (href 0: the card has no link).
Candidate(title, href) == [title |-> title, href |-> href]

CandidateLists ==
  { << Candidate(<<"i", "s">>, 1), Candidate(<<"I", "s", "F">>, 2) >>,
    << Candidate(<<"I", "S", "F">>, 2) >>,
    << Candidate(<<"s", "x">>, 3), Candidate(<<"i", "s">>, 1) >>,
    << Candidate(<<"x", "x">>, 3), Candidate(<<"x">>, 4) >>,
    << Candidate(<< >>, 0) >> }

\* Variant of titleMatches with the containment reversed.
titleMatchesReversed(cardName, title) ==
  includes(toLowerCase(title), toLowerCase(cardName))

\* The predicate of cards.find: the card name contains the title.
titleMatches(cardName, title) ==
  includes(toLowerCase(cardName), toLowerCase(title))

\* Variant of FirstIndex that yields the last element satisfying the predicate.
FirstIndexLast(hits) ==
  IF \E k \in 1..Len(hits) : hits[k]
    THEN CHOOSE k \in 1..Len(hits) : hits[k] /\ \A j \in (k + 1)..Len(hits) : ~hits[j]
    ELSE 0

\* Array.prototype.find as an index: given the predicate's value on each
\* element, the first element satisfying it, or 0.
FirstIndex(hits) ==
  IF \E k \in 1..Len(hits) : hits[k]
    THEN CHOOSE k \in 1..Len(hits) : hits[k] /\ \A j \in 1..(k - 1) : ~hits[j]
    ELSE 0

\* Variant of matchedCard that prefers the longest title contained.
matchedCardMostSpecific(cardName, cards) ==
  LET hits == {n \in 1..Len(cards) : titleMatches(cardName, cards[n].title)}
  IN IF hits = {} THEN 0
     ELSE cards[CHOOSE n \in hits :
                  \A m \in hits : Len(cards[m].title) <= Len(cards[n].title)].href

\* The href of the matched card, or 0 (null).
matchedCard(cardName, cards) ==
  LET k == FirstIndex([n \in 1..Len(cards) |-> titleMatches(cardName, cards[n].title)])
  IN IF k = 0 THEN 0 ELSE cards[k].href

\* Rows of the near-mint table: a label cell and the text of a price cell.
PriceTexts == {"", "N/A", "$0.00", "$1.03"}

Rows == [label : {"Normal:", "Foil:"}, text : PriceTexts]

Tables == SeqsUpTo(Rows, 2)

\* priceText ? parseFloat(priceText.replace(/[^\d.-]/g, '')) : null
parsePrice(text) ==
  CASE text = "" -> NullNum
    [] text = "N/A" -> NaNNum
    [] text = "$0.00" -> Num(0)
    [] text = "$1.03" -> Num(103)

\* The extraction loop: the last row carrying the label decides.
RECURSIVE extractLabel(_, _, _)
extractLabel(table, label, acc) ==
  IF table = << >> THEN acc
  ELSE extractLabel(Tail(table), label,
                    IF Head(table).label = label
                      THEN parsePrice(Head(table).text) ELSE acc)

extract(table) ==
  [normal |-> extractLabel(table, "Normal:", NullNum),
   foil |-> extractLabel(table, "Foil:", NullNum)]

\* Exchange rates the conversion source may answer, in AUD mills per USD
\* cent; 0: no rate obtainable, Convert rejects.
RateOutcomes == {0, 12, 16}

\* Convert(amount).from("USD").to("AUD"): a number of AUD mills.
Convert(cents, rate) == cents * rate

\* amountUSD ? (await Convert(amountUSD)...).toFixed(2) : null
convertedPrice(amount, rate) ==
  IF TruthyNum(amount) THEN Str(toFixed2(Convert(amount.cents, rate))) ELSE NullStr

\* The object scrapeCardPrices returns for the extracted amounts and rates.
pricesFor(u, rn, rf) ==
  [isNull |-> FALSE,
   normalPrice |-> convertedPrice(u.normal, rn),
   foilPrice |-> convertedPrice(u.foil, rf)]

\* While another run is to follow, what the reference site answered for a
\* product is remembered.
remember(id, p) ==
  IF session.run < session.planned
    THEN [session EXCEPT !.known = @ \cup {id}, !.reference[id] = p]
    ELSE session

\* In a later run the reference site and the rates are unchanged: a lookup
\* that returns, returns what it returned before.
sameAnswer(id, p) ==
  (session.run > 1 /\ id \in session.known) => p = session.reference[id]

\* Variant of tryExit where the early return skips the finally clause.
tryExitLeaks(how) == IF how = "returnNull" THEN "check" ELSE "finally"

\* Where control goes when the try block is left: the finally clause.
tryExit(how) == "finally"

Launch ==
  /\ pc = "launch"
  /\ lookups' = Append(lookups, products[i].name)
  /\ \E ok \in BOOLEAN :
       IF ok
         THEN /\ browsers' = browsers + 1
              /\ pc' = "search"
              /\ UNCHANGED <<error, exitStatus>>
         ELSE /\ Catch("LaunchError")
              /\ UNCHANGED browsers
  /\ UNCHANGED <<rendered, session>>
  /\ UNCHANGED <<apiKey, pages, remote, cursor, products, requests, backup, i,
                 card, usd, prices, writes, warned>>

\* newPage, goto or waitForSelector rejects (no result rendered, timeout).
SearchFails ==
  /\ pc = "search"
  /\ error' = "TimeoutError"
  /\ pc' = tryExit("throw")
  /\ UNCHANGED <<rendered, session>>
  /\ UNCHANGED <<apiKey, pages, remote, cursor, products, requests, backup, i,
                 lookups, browsers, card, usd, prices, writes, warned,
                 exitStatus>>

Search ==
  /\ pc = "search"
  /\ \E cards \in CandidateLists :
       /\ rendered' = cards
       /\ card' = matchedCard(products[i].name, cards)
       /\ IF card' = 0
            THEN /\ sameAnswer(products[i].id, NoPrices)
                 /\ prices' = NoPrices
                 /\ session' = remember(products[i].id, NoPrices)
                 /\ pc' = tryExit("returnNull")
            ELSE /\ ~sameAnswer(products[i].id, NoPrices) \/ session.run = 1
                      \/ products[i].id \notin session.known
                 /\ pc' = "detail"
                 /\ UNCHANGED <<prices, session>>
  /\ UNCHANGED <<apiKey, pages, remote, cursor, products, requests, backup, i,
                 lookups, browsers, usd, writes, warned, error, exitStatus>>

\* goto(card), waitForFunction or the extraction rejects.
DetailFails ==
  /\ pc = "detail"
  /\ error' = "TimeoutError"
  /\ pc' = tryExit("throw")
  /\ rendered' = << >>
  /\ UNCHANGED <<session>>
  /\ UNCHANGED <<apiKey, pages, remote, cursor, products, requests, backup, i,
                 lookups, browsers, card, usd, prices, writes, warned,
                 exitStatus>>

Detail ==
  /\ pc = "detail"
  /\ \E table \in Tables :
       /\ usd' = extract(table)
       /\ \E rn \in RateOutcomes \ {0}, rf \in RateOutcomes \ {0} :
            sameAnswer(products[i].id, pricesFor(extract(table), rn, rf))
  /\ pc' = "convert"
  /\ rendered' = << >>
  /\ UNCHANGED <<session>>
  /\ UNCHANGED <<apiKey, pages, remote, cursor, products, requests, backup, i,
                 lookups, browsers, card, prices, writes, warned, error,
                 exitStatus>>

ConvertPrices ==
  /\ pc = "convert"
  /\ \E rn \in RateOutcomes, rf \in RateOutcomes :
       LET normalFails == TruthyNum(usd.normal) /\ rn = 0
           foilFails == TruthyNum(usd.foil) /\ rf = 0
       IN IF normalFails \/ foilFails
            THEN /\ error' = "ConvertError"
                 /\ pc' = tryExit("throw")
                 /\ UNCHANGED <<prices, session>>
            ELSE /\ sameAnswer(products[i].id, pricesFor(usd, rn, rf))
                 /\ prices' = pricesFor(usd, rn, rf)
                 /\ session' = remember(products[i].id, prices')
                 /\ pc' = tryExit("returnPrices")
                 /\ UNCHANGED error
  /\ UNCHANGED <<rendered>>
  /\ UNCHANGED <<apiKey, pages, remote, cursor, products, requests, backup, i,
                 lookups, browsers, card, usd, writes, warned, exitStatus>>

\* Variant of Finally that leaves the browser session open.
FinallyWithoutClose ==
  /\ pc = "finally"
  /\ rendered' = << >>
  /\ IF error = "none"
       THEN /\ pc' = "check"
            /\ UNCHANGED <<error, exitStatus>>
       ELSE Catch(error)
  /\ UNCHANGED <<apiKey, pages, remote, cursor, products, requests, backup, i,
                 lookups, browsers, card, usd, prices, writes, warned, session>>

\* finally { await browser.close() }, then the return or the rethrow.
Finally ==
  /\ pc = "finally"
  /\ browsers' = browsers - 1
  /\ rendered' = << >>
  /\ IF error = "none"
       THEN /\ pc' = "check"
            /\ UNCHANGED <<error, exitStatus>>
       ELSE Catch(error)
  /\ UNCHANGED <<session>>
  /\ UNCHANGED <<apiKey, pages, remote, cursor, products, requests, backup, i,
                 lookups, card, usd, prices, writes, warned>>

----------------------------------------------------------------------------
\* Squarespace.updateProductVariant

\* Answers to the update request: accepted, rejected (non-success status),
\* or the request itself rejects (transport failure).
Responses == {"ok", "rejected", "transport"}

\* Variant of updateRequest that formats the price with one decimal.
updateRequestOneDecimal(productId, variantId, price, resp) ==
  [productId |-> productId, variantId |-> variantId,
   value |-> ((price + 50) \div 100) * 10, resp |-> resp]

\* The request sent for a price (a number, in mills): the value is
\* price.toFixed(2).
updateRequest(productId, variantId, price, resp) ==
  [productId |-> productId, variantId |-> variantId,
   value |-> toFixed2(price), resp |-> resp]

\* Variant of updateProductVariant that absorbs a failed request.
updateProductVariantAbsorbs(resp) == "return"

\* Variant of updateProductVariant that throws on a non-success response.
updateProductVariantThrows(resp) == IF resp = "ok" THEN "return" ELSE "raise"

\* How updateProductVariant completes for each answer.
updateProductVariant(resp) == IF resp = "transport" THEN "raise" ELSE "return"

\* The platform applies an accepted update.
applied(req) ==
  IF req.resp = "ok" THEN [remote EXCEPT ![req.variantId] = req.value] ELSE remote

----------------------------------------------------------------------------
\* The main loop

\* Variant of findVariant that yields the last variant of the condition.
findVariantLast(variants, cond) ==
  FirstIndexLast([n \in 1..Len(variants) |-> variants[n].Condition = cond])

\* Variant of findVariant that matches any near-mint condition.
findVariantAnyNearMint(variants, cond) ==
  FirstIndex([n \in 1..Len(variants) |->
                variants[n].Condition \in {"Near Mint", "Near Mint Foil"}])

\* product.variants?.find(v => v.attributes?.["Condition"] === cond), as an
\* index into the variants (0: undefined).
findVariant(variants, cond) ==
  FirstIndex([n \in 1..Len(variants) |-> variants[n].Condition = cond])

\* if (!prices || (!prices.normalPrice && !prices.foilPrice))
noPrices(p) ==
  p.isNull \/ (~TruthyStr(p.normalPrice) /\ ~TruthyStr(p.foilPrice))

\* Variant of foilPriceOf that reads the normal price.
foilPriceOfNormal(p) == p.normalPrice

\* The reference price each branch reads.
normalPriceOf(p) == p.normalPrice
foilPriceOf(p) == p.foilPrice

\* Variant of shouldUpdate that always updates.
shouldUpdateAlways(oldPrice, newPrice) == TRUE

\* if (oldPrice !== newPrice)
shouldUpdate(oldPrice, newPrice) == oldPrice # newPrice

\* for (const [index, product] of products.entries()), and the read of
\* product.name that opens the iteration.
Loop ==
  /\ pc = "loop"
  /\ IF i > Len(products)
       THEN /\ pc' = "exit"
            /\ exitStatus' = "zero"
            /\ UNCHANGED error
       ELSE IF products[i] = Undefined
         THEN Catch("TypeError")
         ELSE /\ pc' = "launch"
              /\ UNCHANGED <<error, exitStatus>>
  /\ card' = 0
  /\ usd' = NoUsd
  /\ prices' = NoPrices
  /\ UNCHANGED <<rendered, session>>
  /\ UNCHANGED <<apiKey, pages, remote, cursor, products, requests, backup, i,
                 lookups, browsers, writes, warned>>

CheckPrices ==
  /\ pc = "check"
  /\ IF noPrices(prices)
       THEN /\ warned' = Append(warned, i)
            /\ i' = i + 1
            /\ pc' = "loop"
       ELSE /\ pc' = "nearMint"
            /\ UNCHANGED <<warned, i>>
  /\ UNCHANGED <<rendered, session>>
  /\ UNCHANGED <<apiKey, pages, remote, cursor, products, requests, backup,
                 lookups, browsers, card, usd, prices, writes, error,
                 exitStatus>>

\* One branch of the iteration: the variant found for cond, the price it
\* reads, and the position that follows.
Branch(cond, price, next) ==
  LET product == products[i]
      k == findVariant(product.variants, cond)
  IN IF k # 0 /\ TruthyStr(price)
          /\ shouldUpdate(parseFloat(product.variants[k].value), parseFloat(price.cents))
       THEN \E resp \in Responses :
              LET req == updateRequest(product.id, product.variants[k].id,
                                       parseFloat(price.cents), resp)
              IN /\ writes' = Append(writes, req)
                 /\ remote' = applied(req)
                 /\ IF updateProductVariant(resp) = "return"
                      THEN /\ pc' = next
                           /\ UNCHANGED <<error, exitStatus>>
                      ELSE Catch("FetchError")
       ELSE /\ pc' = next
            /\ UNCHANGED <<writes, remote, error, exitStatus>>

NearMint ==
  /\ pc = "nearMint"
  /\ Branch("Near Mint", normalPriceOf(prices), "foil")
  /\ UNCHANGED <<rendered, session>>
  /\ UNCHANGED <<apiKey, pages, cursor, products, requests, backup, i, lookups,
                 browsers, card, usd, prices, warned>>

NearMintFoil ==
  /\ pc = "foil"
  /\ Branch("Near Mint Foil", foilPriceOf(prices), "endIter")
  /\ UNCHANGED <<rendered, session>>
  /\ UNCHANGED <<apiKey, pages, cursor, products, requests, backup, i, lookups,
                 browsers, card, usd, prices, warned>>

\* The end of the loop body: on to the next product.
EndIter ==
  /\ pc = "endIter"
  /\ i' = i + 1
  /\ pc' = "loop"
  /\ UNCHANGED <<rendered, session>>
  /\ UNCHANGED <<apiKey, pages, remote, cursor, products, requests, backup,
                 lookups, browsers, card, usd, prices, writes, warned, error,
                 exitStatus>>

----------------------------------------------------------------------------
Next ==
  \/ CheckApiKey
  \/ FetchPage
  \/ BackupProducts
  \/ Loop
  \/ Launch
  \/ SearchFails
  \/ Search
  \/ DetailFails
  \/ Detail
  \/ ConvertPrices
  \/ Finally
  \/ CheckPrices
  \/ NearMint
  \/ NearMintFoil
  \/ EndIter

Spec == Init /\ [][Next]_vars

\* The schedule starts the script again after a run that ended with exit code
\* zero and had all its updates accepted: a new process, the same platform.
Rerun ==
  /\ pc = "exit"
  /\ exitStatus = "zero"
  /\ session.run < session.planned
  /\ \A k \in 1..Len(writes) : writes[k].resp = "ok"
  /\ session' = [session EXCEPT !.run = @ + 1]
  /\ pc' = "start"
  /\ cursor' = 0
  /\ products' = << >>
  /\ requests' = << >>
  /\ backup' = NoBackup
  /\ i' = 0
  /\ lookups' = << >>
  /\ writes' = << >>
  /\ warned' = << >>
  /\ error' = "none"
  /\ exitStatus' = "running"
  /\ UNCHANGED <<apiKey, pages, remote, browsers, card, usd, prices, rendered>>

NextTwoRuns == Next \/ Rerun

SpecTwoRuns == InitTwoRuns /\ [][NextTwoRuns]_vars

----------------------------------------------------------------------------
\* Properties

\* The write calls addressed to a variant of a product.
WritesTo(productId, variantId) ==
  {k \in 1..Len(writes) :
     writes[k].productId = productId /\ writes[k].variantId = variantId}

\* The base price (cents) a variant carries in the fetched product list.
FetchedValue(productId, variantId) ==
  LET n == CHOOSE n \in 1..Len(products) : products[n].id = productId
      m == CHOOSE m \in 1..Len(products[n].variants) :
             products[n].variants[m].id = variantId
  IN products[n].variants[m].value

\* Every page request so far was answered with a page of the catalog.
AllPagesServed == \A k \in 1..Len(requests) : requests[k].resp = "ok"

\* The iteration of product i has a price object in hand.
InBranches == pc \in {"nearMint", "foil", "endIter"}

\* C1: no update call is made before the backup has been written, and the
\* backup holds exactly the product list getProducts returned, with the base
\* prices the platform held before any update of the run.
C1_BackupBeforeWrite ==
  /\ writes # << >> => backup.status = "written"
  /\ backup.status = "written" =>
       /\ backup.content = stringify(products)
       /\ \A n \in 1..Len(backup.content) :
            \A m \in 1..Len(backup.content[n].variants) :
              backup.content[n].variants[m].value =
                InitialRemote[backup.content[n].variants[m].id]

\* C1 witness: an update was accepted, so the platform's prices moved on,
\* while the backup is on disk.
C1_Witness ==
  /\ backup.status = "written"
  /\ remote # InitialRemote
  /\ Len(backup.content) >= 2

\* The errors a lookup can end with.
LookupErrors == {"LaunchError", "TimeoutError", "ConvertError"}

\* C2: a lookup that fails in any way (timeout, navigation or conversion
\* error raised inside scrapeCardPrices) does not abort the run.
C2_LookupFailureConfined ==
  error \in LookupErrors => exitStatus # "nonzero"

\* C3: when every page request is answered with a page, getProducts requests
\* the pages once each in cursor order, starting with no cursor, stops at the
\* first page without a cursor, and returns the concatenation of the batches
\* (the empty sequence for an empty catalog).
C3_Pagination ==
  AllPagesServed =>
    /\ Len(requests) <= Len(pages)
    /\ \A k \in 1..Len(requests) :
         requests[k].cursor = IF k = 1 THEN 0 ELSE k
    /\ products = Flatten(SubSeq(pages, 1, Len(requests)))
    /\ pc = "getProducts" => Len(requests) < Len(pages)
    /\ (pc \notin {"start", "getProducts"} /\ apiKey) =>
         /\ Len(requests) = Len(pages)
         /\ products = Flatten(pages)

\* C3 witness: a catalog of two non-empty pages has been fetched.
C3_Witness ==
  /\ pc = "backup"
  /\ AllPagesServed
  /\ Len(pages) = 2
  /\ pages[1] # << >> /\ pages[2] # << >>
  /\ products = Flatten(pages)

\* C4: every write carries a price numerically different from the base price
\* fetched for its variant; when the reference price equals that base price,
\* the branch issues no write.
C4_WriteOnlyIfDifferent ==
  /\ \A k \in 1..Len(writes) :
       parseFloat(writes[k].value) #
         parseFloat(FetchedValue(writes[k].productId, writes[k].variantId))
  /\ pc \in {"foil", "endIter"} =>
       LET vs == products[i].variants
           k == findVariant(vs, "Near Mint")
       IN (k # 0 /\ TruthyStr(prices.normalPrice)
             /\ parseFloat(prices.normalPrice.cents) = parseFloat(vs[k].value))
            => WritesTo(products[i].id, vs[k].id) = {}
  /\ pc = "endIter" =>
       LET vs == products[i].variants
           k == findVariant(vs, "Near Mint Foil")
       IN (k # 0 /\ TruthyStr(prices.foilPrice)
             /\ parseFloat(prices.foilPrice.cents) = parseFloat(vs[k].value))
            => WritesTo(products[i].id, vs[k].id) = {}

\* C4 witness: the normal price equals the listed price and is not written,
\* the foil price differs and is written.
C4_Witness ==
  /\ pc = "endIter"
  /\ products[i].id = "p1"
  /\ prices.normalPrice = Str(124)
  /\ prices.foilPrice = Str(124)
  /\ WritesTo("p1", "v1") = {}
  /\ WritesTo("p1", "v2") # {}

\* C5: no variant receives two write calls in a run.
C5_AtMostOneWrite ==
  \A j, k \in 1..Len(writes) :
    (writes[j].productId = writes[k].productId
       /\ writes[j].variantId = writes[k].variantId) => j = k

\* C5 witness: both variants of one product were written, one write was
\* rejected, and a later product was written as well.
C5_Witness ==
  /\ Len(writes) = 3
  /\ writes[1].productId = writes[2].productId
  /\ writes[1].resp = "rejected"

\* C6: a step whose update call is answered with a non-success response
\* raises nothing and goes on to the next branch of the loop.
C6_RejectedWriteContinues ==
  [][(Len(writes') = Len(writes) + 1 /\ writes'[Len(writes')].resp = "rejected")
       => /\ exitStatus' = "running"
          /\ error' = error
          /\ pc' = IF pc = "nearMint" THEN "foil" ELSE "endIter"]_vars

\* C6 witness: the first update was rejected, the other variant and a later
\* product were still updated, and the run ended with exit code zero.
C6_Witness ==
  /\ exitStatus = "zero"
  /\ Len(writes) = 3
  /\ writes[1].resp = "rejected"
  /\ writes[2].productId = writes[1].productId
  /\ writes[3].productId # writes[1].productId

\* C7: once scrapeCardPrices has returned or thrown, no browser session is
\* open.
C7_BrowserClosed ==
  pc \notin {"search", "detail", "convert", "finally"} => browsers = 0

\* C7 witness: a first lookup returned null, a second one threw, and the
\* sessions of both are closed.
C7_Witness ==
  /\ Len(lookups) = 2
  /\ warned = <<1>>
  /\ pc = "exit"
  /\ error \in {"TimeoutError", "ConvertError"}
  /\ browsers = 0

\* C8: when writing the backup file fails, the run ends with a non-zero exit
\* and issues no lookup and no write.
C8_BackupFailureAborts ==
  backup.status = "failed" =>
    /\ pc = "exit"
    /\ exitStatus = "nonzero"
    /\ lookups = << >>
    /\ writes = << >>
    /\ remote = InitialRemote

\* C8 witness: the backup of a non-empty catalog failed.
C8_Witness ==
  /\ backup.status = "failed"
  /\ Len(products) >= 2
  /\ AllPagesServed

\* C9: a failed currency conversion does not abort the run.
C9_ConversionFailureConfined ==
  error = "ConvertError" => exitStatus = "running"

\* C10: with a usable normal price and no usable foil price, only the Near
\* Mint variant of the product may be written; with a usable foil price and
\* no usable normal price, only the Near Mint Foil variant may be.
C10_PartialPrices ==
  InBranches =>
    LET vs == products[i].variants
        nm == findVariant(vs, "Near Mint")
        nmf == findVariant(vs, "Near Mint Foil")
        written == {writes[k].variantId :
                      k \in {k \in 1..Len(writes) : writes[k].productId = products[i].id}}
    IN /\ (TruthyStr(prices.normalPrice) /\ ~TruthyStr(prices.foilPrice))
            => written \subseteq {vs[m].id : m \in {nm} \ {0}}
       /\ (~TruthyStr(prices.normalPrice) /\ TruthyStr(prices.foilPrice))
            => written \subseteq {vs[m].id : m \in {nmf} \ {0}}

\* C10 witness: only the normal price is usable, the Near Mint variant was
\* written and the Near Mint Foil variant of the product was not.
C10_Witness ==
  /\ pc = "endIter"
  /\ products[i].id = "p1"
  /\ TruthyStr(prices.normalPrice)
  /\ ~TruthyStr(prices.foilPrice)
  /\ WritesTo("p1", "v1") # {}
  /\ WritesTo("p1", "v2") = {}

\* C11: in a second run that follows a completed run whose updates were all
\* accepted, with the reference site and the rates answering as before, no
\* update call is made.
C11_SecondRunWritesNothing ==
  session.run = 2 => writes = << >>

\* C11 witness: the second run has compared both variants of a product whose
\* Near Mint price the first run changed.
C11_Witness ==
  /\ session.run = 2
  /\ pc = "endIter"
  /\ products[i].id = "p1"
  /\ remote["v1"] # InitialRemote["v1"]
  /\ TruthyStr(prices.foilPrice)
  /\ writes = << >>

\* The card name contains the title, compared case-insensitively.
Contained(name, title) ==
  \E k \in 0..(Len(name) - Len(title)) :
    \A j \in 1..Len(title) : Lower(name[k + j]) = Lower(title[j])

\* The search page has just been evaluated for product i.
SearchAnswered == pc \in {"detail", "finally"} /\ rendered # << >>

\* C12: when no rendered title is contained in the product name, the lookup
\* returns null; a null lookup makes the loop log the product, issue no
\* write, raise nothing and move to the next entry.
C12_NoMatchSkips ==
  [][/\ (rendered = << >> /\ rendered' # << >>
           /\ \A n \in 1..Len(rendered') :
                ~Contained(products[i].name, rendered'[n].title))
          => (pc' = "finally" /\ prices'.isNull /\ error' = "none")
     /\ (pc = "finally" /\ prices.isNull /\ error = "none")
          => (pc' = "check" /\ prices'.isNull /\ writes' = writes
                /\ exitStatus' = "running")
     /\ (pc = "check" /\ prices.isNull)
          => (pc' = "loop" /\ i' = i + 1 /\ writes' = writes
                /\ warned' = Append(warned, i)
                /\ error' = "none" /\ exitStatus' = "running")]_vars

\* C12 witness: after a first product was skipped, the lookup of the second
\* one finds no contained title and returns null.
C12_Witness ==
  /\ pc = "finally"
  /\ Len(lookups) = 2
  /\ warned = <<1>>
  /\ writes = << >>
  /\ rendered = << Candidate(<<"x", "x">>, 3), Candidate(<<"x">>, 4) >>
  /\ prices.isNull
  /\ error = "none"

\* The search results "Island" then "Island (Foil)".
IslandThenFoil ==
  << Candidate(<<"i", "s">>, 1), Candidate(<<"I", "s", "F">>, 2) >>

\* The product i is searched by the name that contains both titles.
IslandExample ==
  /\ SearchAnswered
  /\ rendered = IslandThenFoil
  /\ products[i].name = <<"I", "s", "F">>

\* C13 as stated: for the results "Island" then "Island (Foil)" the more
\* specific card "Island (Foil)" is selected, and no contained title is
\* longer than the selected one.
C13_MostSpecificSelected ==
  /\ IslandExample => card = 2
  /\ (SearchAnswered /\ card # 0) =>
       \A n, m \in 1..Len(rendered) :
         (rendered[n].href = card /\ Contained(products[i].name, rendered[m].title))
           => Len(rendered[m].title) <= Len(rendered[n].title)

\* C13 amended: for the results "Island" then "Island (Foil)" the card
\* "Island" is selected; a card that has a contained title earlier in result
\* order wins over any later one, however specific.
C13_EarliestSelected ==
  /\ IslandExample => card = 1
  /\ SearchAnswered =>
       \A n, m \in 1..Len(rendered) :
         (n < m /\ Contained(products[i].name, rendered[n].title)
                /\ Contained(products[i].name, rendered[m].title)
                /\ rendered[m].href # 0)
           => card # rendered[m].href

\* C13 witness: the example has been searched and "Island" selected.
C13_Witness ==
  /\ IslandExample
  /\ pc = "detail"
  /\ card = 1

\* The index of the first rendered card whose title the name contains (0:
\* none).
FirstContained ==
  IF \E n \in 1..Len(rendered) : Contained(products[i].name, rendered[n].title)
    THEN CHOOSE n \in 1..Len(rendered) :
           /\ Contained(products[i].name, rendered[n].title)
           /\ \A m \in 1..(n - 1) : ~Contained(products[i].name, rendered[m].title)
    ELSE 0

\* The lookup returns null at the match step.
ReturnsNull == pc = "finally" /\ prices.isNull /\ error = "none"

C14_RejectedCredentialAborts ==
  (\E k \in 1..Len(requests) : requests[k].resp = "errorBody") =>
    /\ pc = "exit"
    /\ exitStatus = "nonzero"
    /\ backup.status = "none"
    /\ lookups = << >>
    /\ writes = << >>

\* A top-level failure happened: missing credential, failed catalog fetch,
\* failed backup, or an error raised in the loop.
TopLevelFailure ==
  \/ ~apiKey
  \/ requests # << >> /\ requests[Len(requests)].resp = "raise"
  \/ backup.status = "failed"
  \/ i \in 1..Len(products) /\ products[i] = Undefined
  \/ error \in LookupErrors
  \/ writes # << >> /\ writes[Len(writes)].resp = "transport"

\* C15: the process exits non-zero exactly when a top-level failure
\* happened, and zero otherwise, whatever was skipped or rejected.
C15_ExitCode ==
  /\ pc = "exit" => exitStatus \in {"zero", "nonzero"}
  /\ pc # "exit" => exitStatus = "running"
  /\ pc = "exit" => (exitStatus = "nonzero" <=> TopLevelFailure)
  /\ (pc = "exit" /\ \E k \in 1..Len(requests) : requests[k].resp # "ok")
       => exitStatus = "nonzero"

\* C15 witness: a run with a skipped product and a rejected update exits
\* with code zero.
C15_Witness ==
  /\ pc = "exit"
  /\ exitStatus = "zero"
  /\ warned # << >>
  /\ \E k \in 1..Len(writes) : writes[k].resp = "rejected"

\* The position of a product in the fetched list.
IndexOf(productId) == CHOOSE n \in 1..Len(products) : products[n].id = productId

\* C16: lookups are made in catalog order, one per entry; the writes of an
\* entry come after its lookup and before the lookup of the next entry; at
\* most one browser session is open.
C16_Sequential ==
  /\ browsers <= 1
  /\ \A k \in 1..Len(lookups) : lookups[k] = products[k].name
  /\ pc \in {"search", "detail", "convert", "finally", "check",
             "nearMint", "foil", "endIter"} => Len(lookups) = i
  /\ pc \in {"loop", "launch"} => Len(lookups) = i - 1
  /\ \A j, k \in 1..Len(writes) :
       j < k => IndexOf(writes[j].productId) <= IndexOf(writes[k].productId)
  /\ \A k \in 1..Len(writes) : IndexOf(writes[k].productId) <= Len(lookups)
  /\ pc \in {"search", "detail", "convert", "finally", "check"} =>
       \A k \in 1..Len(writes) : IndexOf(writes[k].productId) < i

\* C16 witness: the second lookup runs after both writes of the first entry.
C16_Witness ==
  /\ pc = "search"
  /\ browsers = 1
  /\ Len(lookups) = 2
  /\ Len(writes) = 2

\* The first variant of a product carrying a condition (0: none).
FirstWith(variants, cond) ==
  IF \E n \in 1..Len(variants) : variants[n].Condition = cond
    THEN CHOOSE n \in 1..Len(variants) :
           /\ variants[n].Condition = cond
           /\ \A m \in 1..(n - 1) : variants[m].Condition # cond
    ELSE 0

\* C18: every write is addressed to the first "Near Mint" variant of its
\* product, with the normal price, or to the first "Near Mint Foil" variant,
\* with the foil price.
C18_OnlyFirstNearMintVariants ==
  /\ \A k \in 1..Len(writes) :
       LET vs == products[IndexOf(writes[k].productId)].variants
           nm == FirstWith(vs, "Near Mint")
           nmf == FirstWith(vs, "Near Mint Foil")
       IN \/ nm # 0 /\ writes[k].variantId = vs[nm].id
          \/ nmf # 0 /\ writes[k].variantId = vs[nmf].id
  /\ InBranches =>
       \A k \in 1..Len(writes) :
         writes[k].productId = products[i].id =>
           LET vs == products[i].variants
               nm == FirstWith(vs, "Near Mint")
           IN IF nm # 0 /\ writes[k].variantId = vs[nm].id
                THEN prices.normalPrice = Str(writes[k].value)
                ELSE prices.foilPrice = Str(writes[k].value)

\* C18 witness: prices were found for a product without variants and for a
\* product with three variants; only the first "Near Mint" one was written.
C18_Witness ==
  /\ pc = "exit"
  /\ exitStatus = "zero"
  /\ Len(products) = 2
  /\ products[1].id = "p3"
  /\ products[2].id = "p2"
  /\ warned = << >>
  /\ Len(writes) = 1
  /\ writes[1].variantId = "v4"

\* A scraped amount that is zero or not a number.
ZeroOrNaN(n) == n.kind = "nan" \/ (n.kind = "num" /\ n.cents = 0)

\* C19: a scraped amount that is zero or not a number is returned as null
\* and the variant it would price receives no write.
C19_ZeroOrNaNIsNoPrice ==
  (pc \in {"finally", "check", "nearMint", "foil", "endIter"} /\ ~prices.isNull) =>
    LET vs == products[i].variants
        nm == FirstWith(vs, "Near Mint")
        nmf == FirstWith(vs, "Near Mint Foil")
    IN /\ ZeroOrNaN(usd.normal) =>
            /\ prices.normalPrice = NullStr
            /\ nm # 0 => WritesTo(products[i].id, vs[nm].id) = {}
       /\ ZeroOrNaN(usd.foil) =>
            /\ prices.foilPrice = NullStr
            /\ nmf # 0 => WritesTo(products[i].id, vs[nmf].id) = {}

\* C19 witness: the normal amount parsed to zero, the foil amount was usable:
\* only the foil variant was written.
C19_Witness ==
  /\ pc = "endIter"
  /\ products[i].id = "p1"
  /\ usd.normal = Num(0)
  /\ TruthyNum(usd.foil)
  /\ WritesTo("p1", "v1") = {}
  /\ WritesTo("p1", "v2") # {}

\* C20: when the update request itself fails, the run ends at once with a
\* non-zero exit, nothing further is processed, and the updates accepted
\* before stay applied.
C20_TransportFailureAborts ==
  [][/\ (Len(writes') = Len(writes) + 1 /\ writes'[Len(writes')].resp = "transport")
          => /\ pc' = "exit"
             /\ exitStatus' = "nonzero"
             /\ error' = "FetchError"
             /\ lookups' = lookups
             /\ remote' = remote
             /\ \A k \in 1..Len(writes) :
                  writes[k].resp = "ok" => remote'[writes[k].variantId] = writes[k].value
     /\ (pc = "exit" /\ exitStatus = "nonzero") => FALSE]_vars

\* C20 witness: the first update of a product was accepted, the request of
\* the second one failed, and a later product is left unprocessed.
C20_Witness ==
  /\ pc = "exit"
  /\ exitStatus = "nonzero"
  /\ Len(writes) = 2
  /\ writes[1].resp = "ok"
  /\ writes[2].resp = "transport"
  /\ remote[writes[1].variantId] = writes[1].value
  /\ i = 1
  /\ Len(products) = 2

====
